---- MODULE Spec2Model ----
(***************************************************************************)
(* Model of the armillary turntable widget (src/src/turntable.rs, driven   *)
(* once per frame from src/src/main.rs).                                   *)
(*                                                                         *)
(* Numbers.  The program computes in f32; the model computes in fixed      *)
(* point over the integers:                                                *)
(*   lengths        millimetres        (0.05 m  = 50,  0.1 m = 100)        *)
(*   angles         degrees            (TAU = 360, 10 degrees = 10)        *)
(*   sines, colours thousandths        (1.0 = 1000)                        *)
(*   elapsed time   whole ticks        (delta \in Dts)                     *)
(* sin/cos, atan2 and sqrt are integer approximations of the f32 ones,    *)
(* exact on the axes and diagonals the modelled inputs lie on.             *)
(*                                                                         *)
(* Option<T> is a sequence of length <= 1: None == << >>, Some(x) == <<x>>.*)
(*                                                                         *)
(* Specifications.                                                         *)
(*   Spec           the widget as main.rs creates it, every snapshot       *)
(*   EmptyGripSpec  the widget created with line_count = 0                 *)
(*   CoastSpec      longer runs over fewer snapshots, for the coast that   *)
(*                  follows a released drag                                *)
(***************************************************************************)
EXTENDS Integers, Sequences, FiniteSets

VARIABLES
    settings,          \* Turntable.settings            (turntable.rs:108)
    grip_lines,        \* Turntable.grip_lines          (turntable.rs:109)
    hover_acting,      \* pointer_hover_action.currently_acting (turntable.rs:113)
    always_acting,     \* always_action.currently_acting (turntable.rs:114)
    touch_acting,      \* touch_action.base().currently_acting (turntable.rs:115)
    actor,             \* touch_action.actor()          (turntable.rs:115)
    actor_stopped,     \* touch_action.actor_stopped()  (turntable.rs:226)
    prev_angle,        \* Turntable.prev_angle          (turntable.rs:116)
    rotation,          \* Turntable.rotation            (turntable.rs:117)
    angular_momentum,  \* momentum scalar of the frame-timed update (main.rs:71)
    content_rotation,  \* angle last pushed to content_parent (turntable.rs:199-201)
    delta,             \* FrameInfo.delta, the host's frame period (main.rs:70)
    frames,            \* number of update calls so far
    rotates,           \* number of external rotate calls so far
    applied,           \* history: sum of every angle handed to rotate
    steady,            \* history: every call so far was an update whose
                       \* snapshot was the one scrolling pointer alone
    last               \* history: what the last call was and what it applied

vars == << settings, grip_lines, hover_acting, always_acting, touch_acting,
           actor, actor_stopped, prev_angle, rotation, angular_momentum,
           content_rotation, delta, frames, rotates, applied, steady, last >>

-----------------------------------------------------------------------------
(* Bounds of the exploration *)

MaxFrames == 3
MaxRotates == 1
LineCount == 1
\* frames of the longer runs that follow a released drag (CoastSpec)
MaxCoastFrames == 5

-----------------------------------------------------------------------------
(* Option *)

None == << >>
Some(x) == << x >>
IsSome(o) == o # << >>
Unwrap(o) == o[1]

-----------------------------------------------------------------------------
(* Fixed-point arithmetic *)

\* 1.0 in thousandths
One == 1000
\* std::f32::consts::TAU in degrees
TAU == 360
\* std::f32::INFINITY: beyond every distance the inputs can produce
INFINITY == 1000000

Abs(a) == IF a < 0 THEN -a ELSE a

\* f32 division, rounding toward zero at the model's resolution
DivT(a, b) == IF a >= 0 THEN a \div b ELSE -((-a) \div b)

\* f32 division, rounding to nearest at the model's resolution
DivR(a, b) == IF a >= 0 THEN (2 * a + b) \div (2 * b) ELSE -((2 * (-a) + b) \div (2 * b))

RECURSIVE Newton(_, _)
Newton(n, x) ==
    LET y == (x + n \div x) \div 2
    IN  IF y >= x THEN x ELSE Newton(n, y)

\* f32::sqrt, floor (Newton's iteration from a power of two above the root)
Sqrt(n) ==
    IF n <= 0 THEN 0
    ELSE Newton(n, IF n < 256 THEN 16
                   ELSE IF n < 4096 THEN 64
                   ELSE IF n < 65536 THEN 256
                   ELSE IF n < 1048576 THEN 1024
                   ELSE n)

\* sine of x degrees, 0 <= x <= 180, in thousandths
SinHalfTurn(x) == (4 * One * x * (180 - x)) \div (40500 - x * (180 - x))

\* f32::sin_cos
Sin(a) ==
    LET x == a % TAU
    IN  IF x <= 180 THEN SinHalfTurn(x) ELSE -SinHalfTurn(x - 180)

Cos(a) == Sin(a + 90)

\* arctangent of m / M in degrees, 0 <= m <= M, M > 0
AtanOctant(m, M) == DivR(m * (45 * M + 16 * (M - m)), M * M)

\* f32::atan2(z, x), degrees in (-180, 180]
Atan2(z, x) ==
    LET ax == Abs(x)
        az == Abs(z)
        base == IF ax = 0 /\ az = 0 THEN 0
                ELSE IF ax >= az THEN AtanOctant(az, ax)
                ELSE 90 - AtanOctant(ax, az)
    IN  IF x >= 0 THEN (IF z >= 0 THEN base ELSE -base)
        ELSE (IF z >= 0 THEN 180 - base ELSE base - 180)

\* f32::hypot
Hypot(a, b) == Sqrt(a * a + b * b)

\* Vec3::distance
Distance(p, q) ==
    Sqrt((p[1] - q[1]) * (p[1] - q[1]) + (p[2] - q[2]) * (p[2] - q[2])
         + (p[3] - q[3]) * (p[3] - q[3]))

\* Vec3::lerp(a, b, 0.5)
LerpHalf(a, b) ==
    << a[1] + DivT(b[1] - a[1], 2), a[2] + DivT(b[2] - a[2], 2),
       a[3] + DivT(b[3] - a[3], 2) >>

\* Quat::from_rotation_y(theta), kept as << cos theta, sin theta >>
QuatFromRotationY(theta) == << Cos(theta), Sin(theta) >>

\* Quat * Vec3
QuatMul(q, p) ==
    << DivR(p[1] * q[1] + p[3] * q[2], One), p[2],
       DivR(p[3] * q[1] - p[1] * q[2], One) >>

\* MapRange::map_range(from_start..from_end, to_start..to_end)
MapRange(v, fs, fe, ts, te) == DivT((v - fs) * (te - ts), fe - fs) + ts

\* f32::clamp
Clamp(v, lo, hi) == IF v < lo THEN lo ELSE IF v > hi THEN hi ELSE v

\* rgba_linear!(r, g, b, a)
Rgba(r, g, b, a) == << r, g, b, a >>

-----------------------------------------------------------------------------
(* TurntableSettings, as main.rs builds them (radius = 0.1) *)

DefaultSettings ==
    [ line_count |-> LineCount,
      line_thickness |-> 2,
      height |-> 30,
      inner_radius |-> 100,
      scroll_multiplier |-> 10 ]

\* a generator that never yields fewer than one line
GripLinesAtLeastOne(s) ==
    LET n == IF s.line_count = 0 THEN 1 ELSE s.line_count
    IN  [ c \in 1..n |->
            LET a == DivT((c - 1) * TAU, n)
                outer_radius == s.inner_radius + s.height
            IN  [ points |->
                    << [ point |-> << DivR(Sin(a) * s.inner_radius, One), 0,
                                      DivR(Cos(a) * s.inner_radius, One) >>,
                         thickness |-> s.line_thickness,
                         color |-> Rgba(One, One, One, One) ],
                       [ point |-> << DivR(Sin(a) * outer_radius, One), -s.height,
                                      DivR(Cos(a) * outer_radius, One) >>,
                         thickness |-> s.line_thickness,
                         color |-> Rgba(One, One, One, One) ] >>,
                  cyclic |-> FALSE ] ]

\* TurntableSettings::grip_lines
GripLines(s) ==
    [ c \in 1..s.line_count |->
        LET a == DivT((c - 1) * TAU, s.line_count)
            x == Sin(a)
            y == Cos(a)
            outer_radius == s.inner_radius + s.height
        IN  [ points |->
                << [ point |-> << DivR(x * s.inner_radius, One), 0,
                                  DivR(y * s.inner_radius, One) >>,
                     thickness |-> s.line_thickness,
                     color |-> Rgba(One, One, One, One) ],
                   [ point |-> << DivR(x * outer_radius, One), -s.height,
                                  DivR(y * outer_radius, One) >>,
                     thickness |-> s.line_thickness,
                     color |-> Rgba(One, One, One, One) ] >>,
              cyclic |-> FALSE ] ]

-----------------------------------------------------------------------------
(* Input events the host can deliver.  A snapshot holds handles           *)
(* (Arc<InputData>); InputData[e] is the event a handle points to: uid,   *)
(* the signed distance to the field, the typed input and the datamap's    *)
(* scroll_continuous vector.  One uid is one input method.                 *)

Tip(uid, origin, distance, sc) ==
    [ uid |-> uid, distance |-> distance, scroll |-> sc,
      input |-> [ type |-> "Tip", origin |-> origin ] ]

Hand(uid, thumb, index, ring, middle, little, distance, sc) ==
    [ uid |-> uid, distance |-> distance, scroll |-> sc,
      input |-> [ type |-> "Hand", thumb |-> thumb, index |-> index,
                  ring |-> ring, middle |-> middle, little |-> little ] ]

Pointer(uid, origin, deepest_point, distance, sc) ==
    [ uid |-> uid, distance |-> distance, scroll |-> sc,
      input |-> [ type |-> "Pointer", origin |-> origin,
                  deepest_point |-> deepest_point ] ]

Events == { "TipNorth", "TipWest", "TipTop", "TipOut", "HandEast", "PointerIn",
            "PointerOut", "Pointer2In" }

InputData ==
    [ e \in Events |->
        CASE e = "TipNorth" ->
               \* a controller tip under the ramp, at the rim, azimuth 90
               Tip(1, << 0, -30, 130 >>, -1, << 4, 0 >>)
          [] e = "TipWest" ->
               \* the same tip moved a quarter turn, azimuth 180
               Tip(1, << -130, -30, 0 >>, -1, << 4, 0 >>)
          [] e = "TipTop" ->
               \* the same tip inside the field but above the ramp, azimuth -135
               Tip(1, << -60, -10, -60 >>, -1, << 4, 0 >>)
          [] e = "TipOut" ->
               \* the same tip under the ramp but outside the field
               Tip(1, << 0, -30, 150 >>, 20, << 4, 0 >>)
          [] e = "HandEast" ->
               \* a hand pinching the rim, azimuth 0
               Hand(2, << 120, -20, 10 >>, << 120, -20, -10 >>, << 60, -10, 0 >>,
                    << 70, -10, 0 >>, << 50, -10, 0 >>, -1, << 0, 0 >>)
          [] e = "PointerIn" ->
               \* a pointer ray inside the field, scrolling
               Pointer(3, << 0, 300, 0 >>, << 0, -10, 0 >>, -1, << 1, 0 >>)
          [] e = "PointerOut" ->
               \* the same pointer on the field's surface
               Pointer(3, << 0, 300, 0 >>, << 0, 0, 0 >>, 0, << 1, 0 >>)
          [] e = "Pointer2In" ->
               \* a second pointer inside the field
               Pointer(4, << 300, 300, 0 >>, << 20, -10, 0 >>, -5, << -3, 1 >>) ]

\* the host's snapshots: at most one event per uid, at most two events, and
\* an event outside the field comes alone
Snapshots ==
    { S \in SUBSET Events :
        /\ Cardinality(S) <= 2
        /\ \A e1, e2 \in S : InputData[e1].uid = InputData[e2].uid => e1 = e2
        /\ \A e \in S : InputData[e].distance >= 0 => S = { e } }

\* FrameInfo.delta values; a run keeps one frame period on all its frames
Dts == { 1, 2 }

\* angles of external rotate calls
Angles == { 90 }

-----------------------------------------------------------------------------
(* Input classifier *)

\* interact_point
interact_point(input) ==
    IF input.input.type = "Hand"
        THEN Some(LerpHalf(input.input.thumb, input.input.index))
    ELSE IF input.input.type = "Tip" THEN Some(input.input.origin)
    ELSE None

\* interact_points
interact_points(input) ==
    IF input.input.type = "Hand"
        THEN << input.input.thumb, input.input.index, input.input.ring,
                input.input.middle, input.input.little >>
    ELSE IF input.input.type = "Tip" THEN << input.input.origin >>
    ELSE << >>

\* the flat_map closure of interact_proximity
proximity_points(i) ==
    IF i.input.type = "Hand"
        THEN { i.input.thumb, i.input.index, i.input.ring, i.input.middle,
               i.input.little }
    ELSE IF i.input.type = "Tip" THEN { i.input.origin }
    ELSE {}

\* a proximity that defaults to zero when nothing is in contact
interact_proximity_default_zero(acting, point) ==
    LET ds == { Distance(p, point) :
                  p \in UNION { proximity_points(InputData[i]) : i \in acting } }
    IN  IF ds = {} THEN 0
        ELSE CHOOSE d \in ds : \A d2 \in ds : d <= d2

\* interact_proximity
interact_proximity(acting, point) ==
    LET ds == { Distance(p, point) :
                  p \in UNION { proximity_points(InputData[i]) : i \in acting } }
    IN  IF ds = {} THEN INFINITY
        ELSE CHOOSE d \in ds : \A d2 \in ds : d <= d2

\* interact_angle
interact_angle(input) ==
    LET p == interact_point(input)
    IN  IF IsSome(p) THEN Some(Atan2(Unwrap(p)[3], Unwrap(p)[1])) ELSE None

-----------------------------------------------------------------------------
(* Action conditions (the closures of Turntable::create) *)

\* a hover condition that takes every pointer, whatever its distance
hover_condition_any_pointer(input, s) == input.input.type = "Pointer"

\* a hover condition that also takes a pointer on the field's surface
hover_condition_surface(input, s) ==
    IF input.input.type = "Pointer" THEN input.distance <= 0 ELSE FALSE

\* pointer_hover_action's condition
hover_condition(input, s) ==
    IF input.input.type = "Pointer" THEN input.distance < 0 ELSE FALSE

\* a condition that takes only the events inside the field
always_condition_inside(input, s) == input.distance < 0

\* always_action's condition
always_condition(input, s) == TRUE

\* a capture condition without the slope gate
touch_condition_distance_only(input, s) == input.distance < 0

\* touch_action's condition
touch_condition(input, s) ==
    LET pts == interact_points(input)
        slope_condition ==
            \E k \in 1..Len(pts) :
                LET h == pts[k][2] + s.height
                    r == Hypot(pts[k][1], pts[k][3]) - s.inner_radius
                IN  h < r
        distance_condition == input.distance < 0
    IN  slope_condition /\ distance_condition

-----------------------------------------------------------------------------
(* Action tracker (stardust_xr_molecules::input_action).  The crate is not  *)
(* part of the repository's sources; the tracker is modelled from the      *)
(* design description: a base action holds the events of the frame's       *)
(* snapshot that satisfy its condition, and the single-actor action is the *)
(* machine Idle / Capturing(actor).                                        *)

\* the condition each action was created with
active_condition(action, input, s) ==
    CASE action = "pointer_hover_action" -> hover_condition(input, s)
      [] action = "always_action" -> always_condition(input, s)
      [] action = "touch_action" -> touch_condition(input, s)

\* BaseInputAction after update_actions: the events of the frame's snapshot
\* that satisfy the action's condition
currently_acting(action, snapshot, s) ==
    { e \in snapshot : active_condition(action, InputData[e], s) }

\* an update that keeps an actor whose event has left the snapshot
single_actor_update_stale(old_actor, acting, snapshot) ==
    IF IsSome(old_actor)
        THEN LET same == { e \in snapshot :
                             InputData[e].uid = InputData[Unwrap(old_actor)].uid }
             IN  IF same = {} THEN { old_actor } ELSE { Some(e) : e \in same }
    ELSE IF acting = {} THEN { None }
    ELSE { Some(e) : e \in acting }

\* an update that releases an actor as soon as its event fails the condition
single_actor_update_recheck(old_actor, acting, snapshot) ==
    IF IsSome(old_actor)
        THEN LET same == { e \in acting :
                             InputData[e].uid = InputData[Unwrap(old_actor)].uid }
             IN  IF same = {} THEN { None } ELSE { Some(e) : e \in same }
    ELSE IF acting = {} THEN { None }
    ELSE { Some(e) : e \in acting }

\* an update that hands the capture over, in the frame in which the actor's
\* event is absent, to another event that satisfies the condition
single_actor_update_handover(old_actor, acting, snapshot) ==
    IF IsSome(old_actor)
        THEN LET same == { e \in snapshot :
                             InputData[e].uid = InputData[Unwrap(old_actor)].uid }
             IN  IF same # {} THEN { Some(e) : e \in same }
                 ELSE IF acting = {} THEN { None }
                 ELSE { Some(e) : e \in acting }
    ELSE IF acting = {} THEN { None }
    ELSE { Some(e) : e \in acting }

\* SingleActorAction::update(None): the actors the action may hold next.
\* Idle: any event that satisfies the condition; Capturing(a): a's event of
\* this frame while a is in the snapshot, nobody once it is absent.
single_actor_update(old_actor, acting, snapshot) ==
    IF IsSome(old_actor)
        THEN LET same == { e \in snapshot :
                             InputData[e].uid = InputData[Unwrap(old_actor)].uid }
             IN  IF same = {} THEN { None } ELSE { Some(e) : e \in same }
    ELSE IF acting = {} THEN { None }
    ELSE { Some(e) : e \in acting }

\* SingleActorAction::actor_stopped after update
actor_stopped_edge(old_actor, new_actor) == IsSome(old_actor) /\ ~IsSome(new_actor)

-----------------------------------------------------------------------------
(* Rotation engine.  Scroll, drag and prev_angle are Turntable::update of  *)
(* turntable.rs.  main.rs calls update with the frame's FrameInfo; the     *)
(* momentum steps of that frame-timed update (decay, delta * dt, coast by  *)
(* momentum / dt while not capturing) are modelled from the design         *)
(* description.                                                            *)

RECURSIVE SumScroll(_)
SumScroll(S) ==
    IF S = {} THEN 0
    ELSE LET i == CHOOSE e \in S : TRUE
         IN  (InputData[i].scroll[1] + InputData[i].scroll[2]) + SumScroll(S \ {i})

\* Turntable::scroll
scroll(hover) == SumScroll(hover)

\* a rotate that keeps the angle within one turn
rotate_wrapping(r, angle) == (r + angle) % TAU

\* Turntable::rotate: rotation += angle
rotate(r, angle) == r + angle

\* the angle update hands to rotate for scroll
scroll_rotation(hover, s) == (-scroll(hover)) * s.scroll_multiplier

\* touch_action.actor().cloned().as_deref().and_then(interact_angle)
actor_angle(a) == IF IsSome(a) THEN interact_angle(InputData[Unwrap(a)]) ELSE None

\* a drag delta unwrapped across the seam into (-180, 180]
drag_delta_unwrapped(prev, angle) ==
    LET d == (prev - angle) % TAU IN IF d > 180 THEN d - TAU ELSE d

\* prev_angle - angle
drag_delta(prev, angle) == prev - angle

\* the angle update hands to rotate for the drag, if it does
drag_step(prev, angle) ==
    IF IsSome(angle) /\ IsSome(prev)
        THEN Some(drag_delta(Unwrap(prev), Unwrap(angle)))
    ELSE None

\* a replace that stores a default angle when the actor yields none
replace_prev_angle_default(prev, angle) == IF IsSome(angle) THEN angle ELSE Some(0)

\* self.prev_angle.replace(angle), when the actor yields an angle
replace_prev_angle(prev, angle) == IF IsSome(angle) THEN angle ELSE prev

\* an update that never takes prev_angle
take_prev_angle_never(prev, stopped) == prev

\* self.prev_angle.take(), on actor_stopped
take_prev_angle(prev, stopped) == IF stopped THEN None ELSE prev

\* a momentum that is carried over undamped
decay_momentum_none(m) == m

\* angular_momentum *= 0.98
decay_momentum(m) == DivT(m * 98, 100)

\* a momentum kept as a velocity
drag_momentum_velocity(d, dt) == DivT(d, dt)

\* angular_momentum = delta * dt
drag_momentum(d, dt) == d * dt

\* angular_momentum / dt
coast_angle(m, dt) == DivT(m, dt)

\* a grip colour with the target range the other way round
grip_color_reversed(proximity) ==
    LET lerp == Clamp(MapRange(proximity, 50, 0, 0, One), 0, One)
    IN  Rgba(lerp, lerp, lerp, One)

\* the grip colour of one point: map_range(0.05..0.0, 1.0..0.0), clamp
grip_color(proximity) ==
    LET lerp == Clamp(MapRange(proximity, 50, 0, One, 0), 0, One)
    IN  Rgba(lerp, lerp, lerp, One)

\* a loop that also moves each point to its rotated position
recolor_repositioning(lines, acting, r) ==
    [ l \in DOMAIN lines |->
        [ lines[l] EXCEPT !.points =
            [ k \in DOMAIN lines[l].points |->
                [ lines[l].points[k] EXCEPT
                    !.point = QuatMul(QuatFromRotationY(r), lines[l].points[k].point),
                    !.color =
                        grip_color(interact_proximity(acting,
                            QuatMul(QuatFromRotationY(r), lines[l].points[k].point)))
                ] ] ] ]

\* a loop that runs before the frame's rotation changes: it turns the points
\* by the rotation the update started with
recolor_stale(lines, acting, r) ==
    [ l \in DOMAIN lines |->
        [ lines[l] EXCEPT !.points =
            [ k \in DOMAIN lines[l].points |->
                [ lines[l].points[k] EXCEPT
                    !.color =
                        grip_color(interact_proximity(acting,
                            QuatMul(QuatFromRotationY(rotation),
                                    lines[l].points[k].point)))
                ] ] ] ]

\* the "update grip color" loop
recolor(lines, acting, r) ==
    [ l \in DOMAIN lines |->
        [ lines[l] EXCEPT !.points =
            [ k \in DOMAIN lines[l].points |->
                [ lines[l].points[k] EXCEPT
                    !.color =
                        grip_color(interact_proximity(acting,
                            QuatMul(QuatFromRotationY(r), lines[l].points[k].point)))
                ] ] ] ]

-----------------------------------------------------------------------------
(* The widget *)

\* what a call did, kept for stating properties: the call, its inputs, the
\* state it started from and the angles it handed to rotate
History(call, events, angle, scroll_term, drag, coast) ==
    [ call |-> call, events |-> events, angle |-> angle,
      scroll |-> scroll_term, drag |-> drag, coast |-> coast,
      prev_angle |-> prev_angle, actor |-> actor, rotation |-> rotation,
      angular_momentum |-> angular_momentum ]

\* Turntable::create
create(s) ==
    /\ settings = s
    /\ grip_lines = GripLines(s)
    /\ hover_acting = {}
    /\ always_acting = {}
    /\ touch_acting = {}
    /\ actor = None
    /\ actor_stopped = FALSE
    /\ prev_angle = None
    /\ rotation = 0
    /\ angular_momentum = 0
    /\ content_rotation = 0
    /\ delta \in Dts
    /\ frames = 0
    /\ rotates = 0
    /\ applied = 0
    /\ steady = TRUE
    /\ last = [ call |-> "create", events |-> {}, angle |-> None,
                scroll |-> 0, drag |-> None, coast |-> None,
                prev_angle |-> None, actor |-> None, rotation |-> 0,
                angular_momentum |-> 0 ]

\* main: Turntable::create with the settings of main.rs
Init == create(DefaultSettings)

\* a rotate call that also forgets the azimuth stored for the drag
external_rotate_clearing(angle) ==
    /\ rotates < MaxRotates
    /\ rotation' = rotate(rotation, angle)
    /\ content_rotation' = rotation'
    /\ prev_angle' = None
    /\ rotates' = rotates + 1
    /\ applied' = applied + angle
    /\ steady' = FALSE
    /\ last' = History("rotate", {}, Some(angle), 0, None, None)
    /\ UNCHANGED << settings, grip_lines, hover_acting, always_acting,
                    touch_acting, actor, actor_stopped, angular_momentum,
                    delta, frames >>

\* Turntable::rotate, called from outside between frames
external_rotate(angle) ==
    /\ rotates < MaxRotates
    /\ rotation' = rotate(rotation, angle)
    /\ content_rotation' = rotation'
    /\ rotates' = rotates + 1
    /\ applied' = applied + angle
    /\ steady' = FALSE
    /\ last' = History("rotate", {}, Some(angle), 0, None, None)
    /\ UNCHANGED << settings, grip_lines, hover_acting, always_acting,
                    touch_acting, actor, actor_stopped, prev_angle,
                    angular_momentum, delta, frames >>

\* Turntable::update
update(snapshot, dt) ==
    /\ LET hover == currently_acting("pointer_hover_action", snapshot, settings)
           always == currently_acting("always_action", snapshot, settings)
           touch == currently_acting("touch_action", snapshot, settings)
       IN  \E new_actor \in single_actor_update(actor, touch, snapshot) :
             LET stopped == actor_stopped_edge(actor, new_actor)
                 m0 == decay_momentum(angular_momentum)
                 scroll_term == scroll_rotation(hover, settings)
                 r1 == rotate(rotation, scroll_term)
                 angle == actor_angle(new_actor)
                 drag == drag_step(prev_angle, angle)
                 r2 == IF IsSome(drag) THEN rotate(r1, Unwrap(drag)) ELSE r1
                 m1 == IF IsSome(drag) THEN drag_momentum(Unwrap(drag), dt)
                       ELSE m0
                 p1 == replace_prev_angle(prev_angle, angle)
                 p2 == take_prev_angle(p1, stopped)
                 coast == IF IsSome(new_actor) THEN None
                          ELSE Some(coast_angle(m1, dt))
                 r3 == IF IsSome(coast) THEN rotate(r2, Unwrap(coast)) ELSE r2
             IN  /\ hover_acting' = hover
                 /\ always_acting' = always
                 /\ touch_acting' = touch
                 /\ actor' = new_actor
                 /\ actor_stopped' = stopped
                 /\ angular_momentum' = m1
                 /\ rotation' = r3
                 /\ content_rotation' = r3
                 /\ prev_angle' = p2
                 /\ grip_lines' = recolor(grip_lines, always, r3)
                 /\ applied' = applied + scroll_term
                                + (IF IsSome(drag) THEN Unwrap(drag) ELSE 0)
                                + (IF IsSome(coast) THEN Unwrap(coast) ELSE 0)
                 /\ last' = History("update", snapshot, None, scroll_term,
                                    drag, coast)
    /\ frames' = frames + 1
    /\ steady' = (steady /\ snapshot = { "PointerIn" })
    /\ UNCHANGED << settings, delta, rotates >>

\* Root::frame: the host's frame tick with the frame's snapshot
frame(snapshot) ==
    /\ frames < MaxFrames
    /\ update(snapshot, delta)

Next ==
    \/ \E snapshot \in Snapshots : frame(snapshot)
    \/ \E angle \in Angles : external_rotate(angle)

Spec == Init /\ [][Next]_vars

-----------------------------------------------------------------------------
(* The widget created with degenerate settings: no grip line at all *)

EmptyGripSettings == [ DefaultSettings EXCEPT !.line_count = 0 ]

EmptyGripInit == create(EmptyGripSettings)

EmptyGripSpec == EmptyGripInit /\ [][Next]_vars

-----------------------------------------------------------------------------
(* Longer runs over fewer inputs: a tip that grabs the rim and moves along *)
(* it, a scrolling pointer, and empty frames; enough frames for the spin   *)
(* to go on coasting after the tip is gone.                                *)

CoastSnapshots == { {}, { "TipNorth" }, { "TipWest" }, { "PointerIn" } }

\* Root::frame, on the longer runs
coast_frame(snapshot) ==
    /\ frames < MaxCoastFrames
    /\ update(snapshot, delta)

CoastNext ==
    \/ \E snapshot \in CoastSnapshots : coast_frame(snapshot)
    \/ \E angle \in Angles : external_rotate(angle)

CoastSpec == Init /\ [][CoastNext]_vars

-----------------------------------------------------------------------------
(* Properties *)

Uid(e) == InputData[e].uid
Uids(S) == { Uid(e) : e \in S }
Updated == last.call = "update"

\* the angle the last update applied beyond its scroll term
BeyondScroll == rotation - last.rotation - last.scroll

\* C1: rotation is the sum of every angle passed to rotate since creation,
\* by update (scroll, drag, coast) or from outside; it is never clamped,
\* wrapped or reset, and the content node holds the same angle.
C1_RotationIsSumOfDeltas == rotation = applied /\ content_rotation = rotation

\* C1: an update that scrolled and dragged after an external rotate, with
\* rotation beyond a full turn
C1_Witness ==
    /\ Updated
    /\ IsSome(last.drag)
    /\ last.scroll # 0
    /\ rotates > 0
    /\ rotation > TAU

\* C2: the capture action holds at most one actor, an event of the current
\* frame, and it is not both capturing and stopped.
C2_SingleActor ==
    /\ Len(actor) <= 1
    /\ IsSome(actor) => Unwrap(actor) \in always_acting
    /\ ~(IsSome(actor) /\ actor_stopped)

\* C2: two events satisfy the capture condition in one frame and one of them
\* is the actor
C2_Witness ==
    /\ Updated
    /\ Cardinality(touch_acting) = 2
    /\ last.actor = None
    /\ IsSome(actor)

\* C3: prev_angle is Some only while the capture action is Capturing.
C3_PrevAngleOnlyWhileCapturing == IsSome(prev_angle) => IsSome(actor)

\* C3: an update released a capture that had stored an angle
C3_Witness ==
    /\ Updated
    /\ IsSome(last.actor)
    /\ IsSome(last.prev_angle)
    /\ ~IsSome(actor)

\* C4: the update in which the captured event is gone leaves prev_angle None
\* and applies no drag delta, and no update that starts Idle applies one.
C4_NoDragAfterRelease ==
    Updated =>
        /\ (IsSome(last.actor) /\ Uid(Unwrap(last.actor)) \notin Uids(last.events))
              => (prev_angle = None /\ last.drag = None /\ BeyondScroll = Unwrap(last.coast))
        /\ last.actor = None => last.drag = None

\* C4: the captured event disappeared after a drag, and the update cleared
\* the stored angle
C4_Witness ==
    /\ Updated
    /\ IsSome(last.actor)
    /\ IsSome(last.prev_angle)
    /\ Uid(Unwrap(last.actor)) \notin Uids(last.events)
    /\ actor_stopped
    /\ prev_angle = None
    /\ frames >= 3

\* C5: with an actor at azimuth cur, an update applies exactly prev - cur
\* (raw, also across the seam) when prev is stored and nothing when it is
\* not, and stores cur.
C5_DragDelta ==
    (Updated /\ IsSome(actor)) =>
        LET cur == Atan2(Unwrap(interact_point(InputData[Unwrap(actor)]))[3],
                         Unwrap(interact_point(InputData[Unwrap(actor)]))[1])
        IN  /\ prev_angle = Some(cur)
            /\ BeyondScroll = IF IsSome(last.prev_angle)
                                THEN Unwrap(last.prev_angle) - cur ELSE 0

\* C5: a drag across the seam, from 180 to -135, applied 315
C5_Witness ==
    /\ Updated
    /\ last.prev_angle = Some(180)
    /\ prev_angle = Some(-135)
    /\ BeyondScroll = 315

\* the angle the last update applied beyond its drag and coast terms
ScrollApplied ==
    rotation - last.rotation
        - (IF IsSome(last.drag) THEN Unwrap(last.drag) ELSE 0)
        - (IF IsSome(last.coast) THEN Unwrap(last.coast) ELSE 0)

\* the pointers of a snapshot that are inside the field
PointersInside(S) ==
    { e \in S : InputData[e].input.type = "Pointer" /\ InputData[e].distance < 0 }

\* C6: each update applies a scroll rotation of exactly -(sum of scroll.x +
\* scroll.y over the hover set) * scroll_multiplier; tips, hands and pointers
\* at distance >= 0 contribute nothing, an empty hover set contributes 0, and
\* frames of one hovering pointer scrolling (1, 0) alone rotate by
\* -scroll_multiplier each.
C6_ScrollRotation ==
    /\ Updated =>
         /\ ScrollApplied = (-SumScroll(hover_acting)) * settings.scroll_multiplier
         /\ ScrollApplied = (-SumScroll(PointersInside(last.events)))
                               * settings.scroll_multiplier
         /\ PointersInside(last.events) = {} => ScrollApplied = 0
    /\ steady => rotation = (-settings.scroll_multiplier) * frames

\* C6: two pointers hover in one frame, after an earlier frame
C6_Witness ==
    /\ Updated
    /\ frames >= 2
    /\ Cardinality(hover_acting) = 2
    /\ ScrollApplied = 10

\* C7: a capture persists with the same actor while its event is in the
\* frame's snapshot, whether or not it still satisfies the capture condition,
\* and ends on the update in which the event is absent.
C7_CapturePersists ==
    (Updated /\ IsSome(last.actor)) =>
        IF Uid(Unwrap(last.actor)) \in Uids(last.events)
            THEN /\ IsSome(actor)
                 /\ Uid(Unwrap(actor)) = Uid(Unwrap(last.actor))
                 /\ Unwrap(actor) \in last.events
                 /\ ~actor_stopped
        ELSE actor = None /\ actor_stopped

\* C7: the actor's event is still in the snapshot but no longer satisfies the
\* capture condition, and the capture goes on
C7_Witness ==
    /\ Updated
    /\ IsSome(last.actor)
    /\ IsSome(actor)
    /\ Unwrap(actor) \notin touch_acting

AllPoints == { << l, k >> : l \in DOMAIN grip_lines, k \in 1..2 }
PointAt(lk) == grip_lines[lk[1]].points[lk[2]]
RotatedPoint(lk) == QuatMul(QuatFromRotationY(rotation), PointAt(lk).point)

\* C8 as stated: with no input event in the frame, update colours every grip
\* point (0, 0, 0, 1).
C8_EmptyFrameIsBlack ==
    (Updated /\ last.events = {}) =>
        \A lk \in AllPoints : PointAt(lk).color = Rgba(0, 0, 0, One)

\* C8, amended: with no input event in the frame, the minimum contact distance
\* of every grip point is +infinity and update colours every grip point
\* (1, 1, 1, 1).
C8_EmptyFrameIsWhite ==
    (Updated /\ last.events = {}) =>
        \A lk \in AllPoints :
            /\ interact_proximity(always_acting, RotatedPoint(lk)) = INFINITY
            /\ PointAt(lk).color = Rgba(One, One, One, One)

\* C8: an empty frame right after a frame with a tip on the rim point
C8_Witness ==
    /\ Updated
    /\ last.events = {}
    /\ last.actor = Some("TipNorth")
    /\ last.rotation = 0
    /\ AllPoints # {}

\* the contact points of the events of a snapshot
ContactPoints(S) ==
    UNION { { interact_points(InputData[e])[n] :
                n \in 1..Len(interact_points(InputData[e])) } : e \in S }

\* the least distance from a point to the contact points of a snapshot
MinContactDistance(S, point) ==
    LET ds == { Distance(p, point) : p \in ContactPoints(S) }
    IN  IF ds = {} THEN INFINITY ELSE CHOOSE d \in ds : \A d2 \in ds : d <= d2

\* intensity 0 at distance 0, 1 at 0.05 and beyond, linear between
Intensity(d) == IF d >= 50 THEN One ELSE IF d <= 0 THEN 0 ELSE (d * One) \div 50

\* C9: after an update every grip point is coloured (i, i, i, 1), i the linear
\* map of its rotated position's least contact distance d sending 0 to 0 and
\* 0.05 to 1, clamped to [0, 1]; i never decreases as d grows.
C9_GripColor ==
    /\ Updated =>
         \A lk \in AllPoints :
             LET i == Intensity(MinContactDistance(last.events, RotatedPoint(lk)))
             IN  PointAt(lk).color = Rgba(i, i, i, One)
    /\ frames = 0 =>
         /\ grip_color(0) = Rgba(0, 0, 0, One)
         /\ \A d \in 0..60 :
              /\ grip_color(d)[1] <= grip_color(d + 1)[1]
              /\ d >= 50 => grip_color(d) = Rgba(One, One, One, One)

\* C9: one grip point is touched (black) and another is near a contact
\* (strictly between black and white)
C9_Witness ==
    /\ Updated
    /\ \E lk \in AllPoints : PointAt(lk).color = Rgba(0, 0, 0, One)
    /\ \E lk \in AllPoints :
          PointAt(lk).color[1] > 0 /\ PointAt(lk).color[1] < One

UpdateStep == frames' = frames + 1

\* the angle an update step applied beyond its scroll term
Advance == rotation' - rotation - last'.scroll

Geometry(lines) ==
    [ l \in DOMAIN lines |->
        [ k \in DOMAIN lines[l].points |->
            << lines[l].points[k].point, lines[l].points[k].thickness >> ] ]

\* the vertices of the grip
Vertices(lines) ==
    UNION { { << l, k >> : k \in DOMAIN lines[l].points } : l \in DOMAIN lines }

\* C12: from construction on the grip has line_count segments of 2 points,
\* 2 * line_count vertices, and no update or rotate call changes a point's
\* position or thickness: the grip is the generated one but for its colours.
C12_GripOnlyRecoloured ==
    /\ DOMAIN grip_lines = 1..settings.line_count
    /\ \A l \in DOMAIN grip_lines : Len(grip_lines[l].points) = 2
    /\ Cardinality(Vertices(grip_lines)) = 2 * settings.line_count
    /\ Geometry(grip_lines) = Geometry(GripLines(settings))
    /\ settings = DefaultSettings

\* C12: updates and a rotate call have turned the widget and darkened a
\* point of the grip
C12_Witness ==
    /\ Updated
    /\ frames >= 2
    /\ rotates > 0
    /\ rotation # 0
    /\ \E lk \in Vertices(grip_lines) :
          PointAt(lk).color # Rgba(One, One, One, One)

\* C13: with line_count = 0 the generated grip is empty (no segment, no
\* vertex), every update recolours the empty grip and leaves it empty, and
\* rotation changes by the update's scroll, drag and coast terms and by
\* nothing else.
C13_EmptyGrip ==
    /\ settings.line_count = 0
    /\ GripLines(settings) = << >>
    /\ grip_lines = << >>
    /\ Vertices(grip_lines) = {}
    /\ rotation = applied
    /\ Updated =>
          rotation - last.rotation =
              last.scroll + (IF IsSome(last.drag) THEN Unwrap(last.drag) ELSE 0)
                          + (IF IsSome(last.coast) THEN Unwrap(last.coast) ELSE 0)

\* C13: updates over the empty grip, the last one with a contact in the
\* frame, a scroll and a drag
C13_Witness ==
    /\ settings.line_count = 0
    /\ Updated
    /\ frames >= 2
    /\ always_acting # {}
    /\ last.scroll # 0
    /\ IsSome(last.drag)
    /\ Unwrap(last.drag) # 0
    /\ grip_lines = << >>

\* an event has a contact point beneath the ring's ramp
UnderRamp(e) ==
    \E p \in ContactPoints({ e }) :
        p[2] + settings.height < Hypot(p[1], p[3]) - settings.inner_radius

\* C14: an update that goes from Idle to Capturing(a) takes an event a of its
\* snapshot with distance < 0 and a contact point p with
\* p.y + height < hypot(p.x, p.z) - inner_radius; a Pointer is never the
\* actor, and while Capturing the actor is a Hand or a Tip and yields an
\* azimuth.
C14_CaptureGate ==
    /\ (Updated /\ last.actor = None /\ IsSome(actor)) =>
          /\ Unwrap(actor) \in last.events
          /\ InputData[Unwrap(actor)].distance < 0
          /\ UnderRamp(Unwrap(actor))
    /\ IsSome(actor) =>
          /\ InputData[Unwrap(actor)].input.type \in { "Hand", "Tip" }
          /\ ContactPoints({ Unwrap(actor) }) # {}
          /\ IsSome(interact_angle(InputData[Unwrap(actor)]))

\* C14: from Idle, a frame with a pinching hand (thumb and index beneath the
\* ramp, the other fingers above it) and a pointer inside the field: the
\* hand is captured
C14_Witness ==
    /\ Updated
    /\ last.actor = None
    /\ last.events = { "HandEast", "PointerIn" }
    /\ actor = Some("HandEast")
    /\ \E p \in ContactPoints({ "HandEast" }) :
          ~(p[2] + settings.height < Hypot(p[1], p[3]) - settings.inner_radius)

\* C15: after every update the hover set is exactly the Pointer events of
\* that frame's snapshot with distance < 0, whatever hovered on earlier
\* frames and whatever the capture state is.
C15_HoverSet ==
    Updated =>
        /\ hover_acting \subseteq last.events
        /\ \A e \in last.events :
              e \in hover_acting <=>
                  (InputData[e].input.type = "Pointer" /\ InputData[e].distance < 0)

\* C15: the pointer that hovered (and scrolled by one unit) on the first
\* frame, while a tip was captured, is on the field's surface on the second
\* frame: the hover set is empty
C15_Witness ==
    /\ Updated
    /\ frames = 2
    /\ rotates = 0
    /\ last.rotation = -settings.scroll_multiplier
    /\ IsSome(last.actor)
    /\ last.events = { "PointerOut" }
    /\ hover_acting = {}

\* the events of a snapshot that are Pointers
Pointers(S) == { e \in S : InputData[e].input.type = "Pointer" }

\* C16: the proximity that colours the grip is taken over the contact points
\* of every event of the frame's snapshot, whether or not the event hovers,
\* is the actor, satisfies the capture condition or is inside the field;
\* Pointers add no contact point, so a frame of Pointers alone colours the
\* grip as a frame without events does.
C16_ProximityOverAllEvents ==
    Updated =>
        /\ always_acting = last.events
        /\ ContactPoints(Pointers(last.events)) = {}
        /\ \A lk \in Vertices(grip_lines) :
              /\ interact_proximity(always_acting, RotatedPoint(lk))
                    = MinContactDistance(last.events \ Pointers(last.events),
                                         RotatedPoint(lk))
              /\ PointAt(lk).color
                    = grip_color(MinContactDistance(last.events, RotatedPoint(lk)))
              /\ last.events = Pointers(last.events) =>
                    PointAt(lk).color
                        = grip_color(interact_proximity({}, RotatedPoint(lk)))

\* C16: a frame whose only event is a tip outside the field, neither
\* hovering nor captured, 0.02 from a grip point: the point is darkened to
\* 0.4
C16_Witness ==
    /\ Updated
    /\ last.events = { "TipOut" }
    /\ InputData["TipOut"].distance >= 0
    /\ hover_acting = {}
    /\ touch_acting = {}
    /\ actor = None
    /\ \E lk \in Vertices(grip_lines) : PointAt(lk).color = Rgba(400, 400, 400, One)

\* the rotation an update ends with: the one it started with and the
\* frame's scroll, drag and coast terms
FreshRotation ==
    last.rotation + last.scroll
        + (IF IsSome(last.drag) THEN Unwrap(last.drag) ELSE 0)
        + (IF IsSome(last.coast) THEN Unwrap(last.coast) ELSE 0)

\* the colour of a grip point under a given rotation of the widget
ColorUnder(r, lk) ==
    grip_color(interact_proximity(always_acting,
                                  QuatMul(QuatFromRotationY(r), PointAt(lk).point)))

\* C17: an update first brings both actions up to the frame's snapshot, then
\* applies the frame's rotation changes (scroll from this frame's hover set,
\* drag from this frame's actor, coast), and only then colours the grip: the
\* points are turned by the rotation the update ends with.
C17_UpdateOrder ==
    Updated =>
        /\ hover_acting = PointersInside(last.events)
        /\ IsSome(actor) => Unwrap(actor) \in last.events
        /\ last.scroll = scroll_rotation(hover_acting, settings)
        /\ IsSome(last.drag) =>
              /\ IsSome(actor)
              /\ last.drag = drag_step(last.prev_angle, actor_angle(actor))
        /\ IsSome(last.coast) <=> actor = None
        /\ rotation = FreshRotation
        /\ \A lk \in Vertices(grip_lines) : PointAt(lk).color = ColorUnder(rotation, lk)

\* C17: an update with a scroll and a drag turned the widget, and a grip
\* point has a colour that the rotation of the frame before would not give
C17_Witness ==
    /\ Updated
    /\ last.scroll # 0
    /\ IsSome(last.drag)
    /\ Unwrap(last.drag) # 0
    /\ rotation # last.rotation
    /\ \E lk \in Vertices(grip_lines) :
          PointAt(lk).color # ColorUnder(last.rotation, lk)

\* C18: a drag delta is computed within one capture only: the update that
\* applies one continues the capture of the frame before, with the azimuth
\* stored on that frame; the first update of a capture finds prev_angle None
\* and applies no drag, and so does the update in which the actor's event is
\* gone, also when another event of its snapshot satisfies the capture
\* condition.
C18_NoDragAcrossCaptures ==
    Updated =>
        /\ IsSome(last.drag) =>
              /\ IsSome(last.actor)
              /\ IsSome(actor)
              /\ Uid(Unwrap(actor)) = Uid(Unwrap(last.actor))
              /\ last.prev_angle = interact_angle(InputData[Unwrap(last.actor)])
        /\ (IsSome(actor) /\ (last.actor = None
                               \/ Uid(Unwrap(actor)) # Uid(Unwrap(last.actor)))) =>
              /\ last.prev_angle = None
              /\ last.drag = None
              /\ rotation = last.rotation + last.scroll
        /\ (IsSome(last.actor) /\ Uid(Unwrap(last.actor)) \notin Uids(last.events)) =>
              /\ last.drag = None
              /\ prev_angle = None

\* C18: the captured tip, its azimuth stored, is gone in the frame in which
\* a hand grabs the rim: the update applies no drag and clears the stored
\* azimuth
C18_Witness ==
    /\ Updated
    /\ last.actor = Some("TipWest")
    /\ last.prev_angle = Some(180)
    /\ last.events = { "HandEast" }
    /\ touch_acting = { "HandEast" }
    /\ last.drag = None
    /\ prev_angle = None
    /\ rotation = last.rotation + Unwrap(last.coast)

\* the rotate calls of a behaviour
RotateStep == rotates' = rotates + 1

\* C19: a rotate(angle) call adds angle to rotation, pushes it to the content
\* node and changes nothing else: prev_angle, the capture state and actor,
\* the hover set, the settings, the momentum and the grip with its colours
\* stay; so the update that follows a rotate call made during a drag applies
\* the drag delta prev - cur, prev being the azimuth stored before the call.
C19_RotateOnlyRotates ==
    [][ /\ RotateStep =>
              /\ rotation' = rotation + Unwrap(last'.angle)
              /\ content_rotation' = rotation'
              /\ UNCHANGED << prev_angle, actor, actor_stopped, touch_acting,
                              hover_acting, always_acting, settings,
                              angular_momentum, grip_lines >>
        /\ (UpdateStep /\ last.call = "rotate" /\ IsSome(last.prev_angle)
               /\ IsSome(actor')) =>
              /\ last'.drag = Some(Unwrap(last.prev_angle)
                                     - Unwrap(interact_angle(InputData[Unwrap(actor')])))
              /\ rotation' = rotation + last'.scroll + Unwrap(last'.drag)
      ]_vars

\* C19: a rotate call made during a drag, after a frame that stored an
\* azimuth, hovered a pointer and darkened the grip, with a frame still to
\* come
C19_Witness ==
    /\ last.call = "rotate"
    /\ frames >= 1
    /\ frames < MaxFrames
    /\ IsSome(actor)
    /\ IsSome(prev_angle)
    /\ prev_angle = last.prev_angle
    /\ hover_acting # {}
    /\ rotation = last.rotation + Unwrap(last.angle)
    /\ \E lk \in Vertices(grip_lines) : PointAt(lk).color # Rgba(One, One, One, One)

====
